---- MODULE Spec2Model ----
(***************************************************************************)
(* kolibri/auth/filters.py: HierarchyRelationsFilter.                      *)
(*                                                                         *)
(* A queryable is modelled by what Django keeps of it for the calls made   *)
(* here: the tuple of extra tables (QuerySet.extra(tables=...)), the tree  *)
(* of WHERE nodes (extra(where=...) adds one ExtraWhere leaf with AND,     *)
(* "|" adds the right operand's tree with OR) and the joins registered on  *)
(* the query.  SQL is kept as text, exactly as the source writes it.       *)
(***************************************************************************)
EXTENDS Integers, Sequences, FiniteSets, TLC

(***************************************************************************)
(* Bounds of the model.                                                    *)
(***************************************************************************)
MaxColl == 2
MaxUser == 2
MaxRows == 4

CollIds == 1..MaxColl
UserIds == 1..MaxUser
Callers == {"c1", "c2"}

(***************************************************************************)
(* Python values a caller can pass.                                        *)
(***************************************************************************)
PyNone     == [tag |-> "None"]
PyInt(n)   == [tag |-> "int", n |-> n]
PyStr(s)   == [tag |-> "str", s |-> s]
PyList(l)  == [tag |-> "list", l |-> l]
PyModel(n) == [tag |-> "model", id |-> PyInt(n)]
PyF(name)  == [tag |-> "F", name |-> name]
PyFloat    == [tag |-> "float"]

\* Python truth value: `if target_user:`, `if source_user or role_kind:` ...
Truthy(v) ==
    CASE v.tag = "None"  -> FALSE
      [] v.tag = "int"   -> v.n # 0
      [] v.tag = "str"   -> v.s # ""
      [] v.tag = "list"  -> v.l # << >>
      [] OTHER           -> TRUE

\* '{id}'.format(id=v) for the values _as_sql_reference returns
FormatValue(v) == IF v.tag = "int" THEN ToString(v.n) ELSE v.s

(***************************************************************************)
(* constants.collection_kinds.FACILITY and the Role kinds.                 *)
(***************************************************************************)
FACILITY  == "facility"
CLASSROOM == "classroom"
ADMIN     == "admin"
COACH     == "coach"
RoleKinds == {ADMIN, COACH}

(***************************************************************************)
(* __init__: the table-name registry.                                      *)
(***************************************************************************)
table_names ==
    [role_table         |-> "kolibriauth_role",
     collection_table   |-> "kolibriauth_collection",
     membership_table   |-> "kolibriauth_membership",
     facilityuser_table |-> "kolibriauth_facilityuser"]

\* a table template '"{<key>}" AS "<alias>"' and its format(**self._table_names)
TableTemplate(key, alias) == [key |-> key, alias |-> alias]
FormatTable(t) == "\"" \o table_names[t.key] \o "\" AS \"" \o t.alias \o "\""

role_extra ==
    [tables |-> << TableTemplate("facilityuser_table", "source_user"),
                   TableTemplate("role_table", "role") >>,
     where  |-> << "role.user_id = source_user.id",
                   "role.collection_id = ancestor_collection.id" >>]

\* _collection_extra with the two collections' parts exchanged
collection_extra_Reversed ==
    [tables |-> << TableTemplate("collection_table", "ancestor_collection"),
                   TableTemplate("collection_table", "descendant_collection") >>,
     where  |-> << "ancestor_collection.lft BETWEEN descendant_collection.lft AND descendant_collection.rght" >>]

\* _collection_extra with an interval no collection's lft lies in
collection_extra_Disjoint ==
    [tables |-> << TableTemplate("collection_table", "ancestor_collection"),
                   TableTemplate("collection_table", "descendant_collection") >>,
     where  |-> << "descendant_collection.lft BETWEEN ancestor_collection.rght AND ancestor_collection.rght" >>]

collection_extra ==
    [tables |-> << TableTemplate("collection_table", "ancestor_collection"),
                   TableTemplate("collection_table", "descendant_collection") >>,
     where  |-> << "descendant_collection.lft BETWEEN ancestor_collection.lft AND ancestor_collection.rght" >>]

\* _membership_extra tied to the ancestor instead of the descendant
membership_extra_ViaAncestor ==
    [tables |-> << TableTemplate("facilityuser_table", "target_user"),
                   TableTemplate("membership_table", "membership") >>,
     where  |-> << "membership.user_id = target_user.id",
                   "membership.collection_id = ancestor_collection.id" >>]

membership_extra ==
    [tables |-> << TableTemplate("facilityuser_table", "target_user"),
                   TableTemplate("membership_table", "membership") >>,
     where  |-> << "membership.user_id = target_user.id",
                   "membership.collection_id = descendant_collection.id" >>]

(***************************************************************************)
(* Django's query: WHERE tree, extra tables, registered joins.             *)
(***************************************************************************)
ExtraWhere(sqls)      == [connector |-> "EXTRA", sqls |-> sqls, children |-> << >>]
WhereNode(conn, kids) == [connector |-> conn, sqls |-> << >>, children |-> kids]

\* tree.Node.add(data, conn_type): the same connector appends (a node of that
\* connector, or of one child, is squashed in); the other connector pushes
\* the present node one level down.
NodeAdd(node, data, conn_type) ==
    IF node.connector = conn_type
    THEN IF data.connector # "EXTRA"
            /\ (data.connector = conn_type \/ Len(data.children) = 1)
         THEN WhereNode(conn_type, node.children \o data.children)
         ELSE WhereNode(conn_type, Append(node.children, data))
    ELSE WhereNode(conn_type, << node, data >>)

\* the queryset a HierarchyRelationsFilter is constructed with: Model.objects.all()
EmptyQuery == [extra_tables |-> << >>, where |-> WhereNode("AND", << >>), joins |-> {}]

\* QuerySet.extra(tables=..., where=...): a clone, with one ExtraWhere and the tables added
QExtra(q, extras) ==
    [q EXCEPT
       !.where = IF "where" \in DOMAIN extras /\ extras.where # << >>
                 THEN NodeAdd(q.where, ExtraWhere(extras.where), "AND")
                 ELSE q.where,
       !.extra_tables = IF "tables" \in DOMAIN extras THEN q.extra_tables \o extras.tables
                        ELSE q.extra_tables]

\* lhs | rhs: a clone of lhs; Query.combine(rhs, OR) adds rhs's WHERE tree
\* with OR and appends rhs's extra tables and joins.
QOr(lhs, rhs) ==
    [extra_tables |-> lhs.extra_tables \o rhs.extra_tables,
     where        |-> NodeAdd(lhs.where, rhs.where, "OR"),
     joins        |-> lhs.joins \union rhs.joins]

\* _add_extras(queryset, **kwargs)
add_extras(queryset, kwargs) ==
    LET tabs == IF "tables" \in DOMAIN kwargs
                THEN [tables |-> [i \in DOMAIN kwargs.tables |-> FormatTable(kwargs.tables[i])]]
                ELSE << >>
        whr  == IF "where" \in DOMAIN kwargs THEN [where |-> kwargs.where] ELSE << >>
    IN  QExtra(queryset, tabs @@ whr)

(***************************************************************************)
(* Reference resolution.                                                   *)
(***************************************************************************)
RECURSIVE JoinStr(_, _)
\* sep.join(parts)
JoinStr(parts, sep) ==
    IF parts = << >> THEN ""
    ELSE IF Len(parts) = 1 THEN parts[1]
    ELSE parts[1] \o sep \o JoinStr(Tail(parts), sep)

\* The model the filtered queryset is over (the docstring's example filters
\* FacilityUser): what Django's lookup resolution finds for a field name.
\*   id                      the primary key
\*   dataset                 a foreign key; its column is dataset_id
\*   membership__collection  a field of a related model: the path joins the
\*                           membership table (Membership.user points here)
\*   id__gt                  a field with a lookup qualifier
\* Any other name is no field.
BaseModelTable == table_names.facilityuser_table
LookupField(name) ==
    CASE name = "id" ->
           [found |-> TRUE, lookups |-> << "exact" >>, parts |-> << "id" >>,
            attname |-> "id", joins |-> {}]
      [] name = "dataset" ->
           [found |-> TRUE, lookups |-> << "exact" >>, parts |-> << "dataset" >>,
            attname |-> "dataset_id", joins |-> {}]
      [] name = "membership__collection" ->
           [found |-> TRUE, lookups |-> << "exact" >>,
            parts |-> << "membership", "collection" >>,
            attname |-> "collection_id", joins |-> {table_names.membership_table}]
      [] name = "id__gt" ->
           [found |-> TRUE, lookups |-> << "gt" >>, parts |-> << "id" >>,
            attname |-> "id", joins |-> {}]
      [] OTHER ->
           [found |-> FALSE, lookups |-> << >>, parts |-> << >>,
            attname |-> "", joins |-> {}]

\* f_expr.resolve_expression(self.queryset.query): Django resolves the name
\* on the Query object it is handed, here the instance's own (not a clone),
\* and registers on it the joins the path needs.
ResolveExpressionJoins(base, info) == [base EXCEPT !.joins = @ \union info.joins]

\* _resolve_f_expression(f_expr), on the instance's queryset `base`:
\* [raised, value, base]
resolve_f_expression(f_expr, base) ==
    LET info  == LookupField(f_expr.name)
        base1 == ResolveExpressionJoins(base, info)
        parts == [i \in DOMAIN info.parts |->
                    IF i = Len(info.parts) THEN info.attname ELSE info.parts[i]]
    IN  IF ~info.found
        THEN [raised |-> "FieldError", value |-> PyNone, base |-> base]
        ELSE IF ~(Len(info.lookups) = 1 /\ info.lookups[1] = "exact")
        THEN [raised |-> "AssertionError", value |-> PyNone, base |-> base1]
        ELSE [raised |-> "",
              value  |-> PyStr(JoinStr(<< BaseModelTable >> \o parts, ".")),
              base   |-> base1]

\* _as_sql_reference(ref): [raised, value, base]
as_sql_reference(ref, base) ==
    IF ref.tag = "model"
    THEN [raised |-> "", value |-> ref.id, base |-> base]
    ELSE IF ref.tag = "str" \/ ref.tag = "int"
    THEN [raised |-> "", value |-> ref, base |-> base]
    ELSE IF ref.tag = "F"
    THEN resolve_f_expression(ref, base)
    ELSE [raised |-> "Exception", value |-> PyNone, base |-> base]

(***************************************************************************)
(* filter_by_hierarchy, line by line.  `l` holds the call's locals, `base` *)
(* the instance's queryset (self.queryset); each operator gives both back. *)
(***************************************************************************)
\* the local `queryset` is at first the very object self.queryset
SelfQueryset == [ref |-> "self.queryset"]
Deref(v, base) == IF "ref" \in DOMAIN v THEN base ELSE v

Locals(args) ==
    [pc |-> "L125", raised |-> "",
     source_user           |-> args.source_user,
     role_kind             |-> args.role_kind,
     ancestor_collection   |-> args.ancestor_collection,
     descendant_collection |-> args.descendant_collection,
     target_user           |-> args.target_user,
     queryset              |-> PyNone,
     member_via_hierarchy  |-> PyNone,
     member_via_facility   |-> PyNone]

\* queryset = self.queryset; if target_user:
L125(l, base) ==
    [l    |-> [l EXCEPT !.queryset = SelfQueryset,
                        !.pc = IF Truthy(l.target_user) THEN "L136" ELSE "L147"],
     base |-> base]

\* member_via_hierarchy = self._add_extras(queryset, **self._membership_extra)
L136(l, base) ==
    [l    |-> [l EXCEPT !.member_via_hierarchy =
                            add_extras(Deref(l.queryset, base), membership_extra),
                        !.pc = "L142"],
     base |-> base]

FacilityWhere ==
    << "ancestor_collection.kind = '" \o FACILITY \o "'",
       "ancestor_collection.dataset_id = target_user.dataset_id" >>

\* member_via_facility = self._add_extras(queryset, where=where_clause)
L142(l, base) ==
    [l    |-> [l EXCEPT !.member_via_facility =
                            add_extras(Deref(l.queryset, base), [where |-> FacilityWhere]),
                        !.pc = "L144"],
     base |-> base]

\* queryset = member_via_facility | member_via_hierarchy
L144(l, base) ==
    [l    |-> [l EXCEPT !.queryset = QOr(l.member_via_facility, l.member_via_hierarchy),
                        !.pc = "L147"],
     base |-> base]

\* queryset = self._add_extras(queryset, **self._collection_extra)
L147(l, base) ==
    [l    |-> [l EXCEPT !.queryset = add_extras(Deref(l.queryset, base), collection_extra),
                        !.pc = "L150"],
     base |-> base]

\* if source_user or role_kind: queryset = self._add_extras(queryset, **self._role_extra)
L150(l, base) ==
    [l    |-> [l EXCEPT !.queryset = IF Truthy(l.source_user) \/ Truthy(l.role_kind)
                                     THEN add_extras(l.queryset, role_extra)
                                     ELSE l.queryset,
                        !.pc = "L158"],
     base |-> base]

\* if <param>: where_clause = ['<alias>.id = {id}'.format(id=self._as_sql_reference(<param>))]
\*             queryset = self._add_extras(queryset, where=where_clause)
IdConstraint(l, base, param, alias, next) ==
    IF ~Truthy(param)
    THEN [l |-> [l EXCEPT !.pc = next], base |-> base]
    ELSE LET r == as_sql_reference(param, base)
         IN  IF r.raised # ""
             THEN [l |-> [l EXCEPT !.pc = "raised", !.raised = r.raised], base |-> r.base]
             ELSE [l |-> [l EXCEPT
                            !.queryset = add_extras(l.queryset,
                               [where |-> << alias \o ".id = " \o FormatValue(r.value) >>]),
                            !.pc = next],
                   base |-> r.base]

L158(l, base) == IdConstraint(l, base, l.source_user, "source_user", "L162")

\* iterating a Python value: a string gives its characters
StrChars(s) ==
    CASE s = "admin" -> << "a", "d", "m", "i", "n" >>
      [] s = "coach" -> << "c", "o", "a", "c", "h" >>
      [] OTHER       -> << >>
Iterate(v) == IF v.tag = "str" THEN StrChars(v.s) ELSE v.l

\* role_kind left as it is: a string is then iterated character by character
KindList_NoWrap(role_kind) == role_kind

\* if isinstance(role_kind, string_types): role_kind = [role_kind]
KindList(role_kind) ==
    IF role_kind.tag = "str" THEN PyList(<< role_kind.s >>) ELSE role_kind

\* kinds_string = "('{kind_list}')".format(kind_list="','".join(role_kind))
KindsString(role_kind) == "('" \o JoinStr(Iterate(role_kind), "','") \o "')"

L162(l, base) ==
    IF ~Truthy(l.role_kind)
    THEN [l |-> [l EXCEPT !.pc = "L171"], base |-> base]
    ELSE LET kinds == KindList(l.role_kind)
         IN  [l |-> [l EXCEPT
                       !.role_kind = kinds,
                       !.queryset  = add_extras(l.queryset,
                                        [where |-> << "role.kind IN " \o KindsString(kinds) >>]),
                       !.pc = "L171"],
              base |-> base]

L171(l, base) == IdConstraint(l, base, l.ancestor_collection, "ancestor_collection", "L175")
L175(l, base) == IdConstraint(l, base, l.descendant_collection, "descendant_collection", "L179")
L179(l, base) == IdConstraint(l, base, l.target_user, "target_user", "L183")

\* return queryset
L183(l, base) == [l |-> [l EXCEPT !.pc = "returned"], base |-> base]

Line(l, base) ==
    CASE l.pc = "L125" -> L125(l, base)
      [] l.pc = "L136" -> L136(l, base)
      [] l.pc = "L142" -> L142(l, base)
      [] l.pc = "L144" -> L144(l, base)
      [] l.pc = "L147" -> L147(l, base)
      [] l.pc = "L150" -> L150(l, base)
      [] l.pc = "L158" -> L158(l, base)
      [] l.pc = "L162" -> L162(l, base)
      [] l.pc = "L171" -> L171(l, base)
      [] l.pc = "L175" -> L175(l, base)
      [] l.pc = "L179" -> L179(l, base)
      [] l.pc = "L183" -> L183(l, base)

RECURSIVE RunFrom(_, _)
RunFrom(l, base) ==
    IF l.pc \in {"returned", "raised"} THEN [l |-> l, base |-> base]
    ELSE LET r == Line(l, base) IN RunFrom(r.l, r.base)

\* filter_by_hierarchy(**args) run from start to end with no other call in between
filter_by_hierarchy(args, base) == RunFrom(Locals(args), base)

NoArgs ==
    [source_user |-> PyNone, role_kind |-> PyNone, ancestor_collection |-> PyNone,
     descendant_collection |-> PyNone, target_user |-> PyNone]

(***************************************************************************)
(* The database the composed queryable is later executed on.               *)
(* Columns are the ones the SQL of the source names: collection(id, lft,   *)
(* rght, kind, dataset_id), facilityuser(id, dataset_id), role(user_id,    *)
(* collection_id, kind), membership(user_id, collection_id).               *)
(***************************************************************************)
Datasets == {1, 2}

Endpoints(c) == 1..(2 * c)
\* nested-set invariant: lft < rght, every two intervals nested or disjoint,
\* no endpoint used twice; ids are given in lft order.
NestedSet(f, c) ==
    /\ \A i \in 1..c : f[i][1] < f[i][2]
    /\ \A i, j \in 1..c : i < j =>
          /\ f[i][1] < f[j][1]
          /\ f[i][2] # f[j][2] /\ f[i][2] # f[j][1]
          /\ (f[j][2] < f[i][2] \/ f[i][2] < f[j][1])
NestedSets(c) ==
    {f \in [1..c -> Endpoints(c) \X Endpoints(c)] : NestedSet(f, c)}

IsRoot(f, c, i) == ~\E j \in 1..c : f[j][1] < f[i][1] /\ f[i][2] < f[j][2]
CollectionRows(f, c) ==
    {[id |-> i, lft |-> f[i][1], rght |-> f[i][2],
      kind |-> IF IsRoot(f, c, i) THEN FACILITY ELSE CLASSROOM,
      dataset_id |-> 1] : i \in 1..c}
UserRows(g, u) == {[id |-> i, dataset_id |-> g[i]] : i \in 1..u}

RECURSIVE SubsetsUpTo(_, _)
SubsetsUpTo(S, k) ==
    IF k <= 0 THEN {{}}
    ELSE LET prev == SubsetsUpTo(S, k - 1)
         IN  prev \union {p \union {x} : p \in prev, x \in S}

LinkRows(c, u) ==
    {[tab |-> "membership", row |-> [user_id |-> i, collection_id |-> j]]
        : i \in 1..u, j \in 1..c}
    \union
    {[tab |-> "role", row |-> [user_id |-> i, collection_id |-> j, kind |-> k]]
        : i \in 1..u, j \in 1..c, k \in RoleKinds}

\* every database of at most MaxRows rows over at most MaxColl collections
\* and MaxUser users
Databases ==
    UNION {
      UNION {
        {[collection   |-> CollectionRows(f, c),
          facilityuser |-> UserRows(g, u),
          membership   |-> {x.row : x \in {y \in links : y.tab = "membership"}},
          role         |-> {x.row : x \in {y \in links : y.tab = "role"}}]
           : f \in NestedSets(c), g \in [1..u -> Datasets],
             links \in SubsetsUpTo(LinkRows(c, u), MaxRows - c - u)}
        : u \in {v \in 0..MaxUser : c + v <= MaxRows} }
      : c \in {v \in 0..MaxColl : v <= MaxRows} }

EmptyDatabase == [collection |-> {}, facilityuser |-> {}, membership |-> {}, role |-> {}]

(***************************************************************************)
(* Executing a queryable: the SQL text is read back and evaluated.         *)
(*   SELECT base.* FROM base, <extra tables> WHERE <tree>                  *)
(* The extra tables are cross-joined: a base row is selected when some     *)
(* choice of one row per declared alias satisfies the WHERE tree.          *)
(***************************************************************************)
Aliases == {"source_user", "role", "ancestor_collection", "descendant_collection",
            "target_user", "membership"}
TableKeys == DOMAIN table_names
ColumnsOf(key) ==
    CASE key = "collection_table"   -> {"id", "lft", "rght", "kind", "dataset_id"}
      [] key = "facilityuser_table" -> {"id", "dataset_id"}
      [] key = "role_table"         -> {"user_id", "collection_id", "kind"}
      [] key = "membership_table"   -> {"user_id", "collection_id"}
RowsOf(key, db) ==
    CASE key = "collection_table"   -> db.collection
      [] key = "facilityuser_table" -> db.facilityuser
      [] key = "role_table"         -> db.role
      [] key = "membership_table"   -> db.membership

\* reading a FROM item back: text -> [key, alias]
TableTexts ==
    {<< FormatTable(TableTemplate(k, a)), TableTemplate(k, a) >> : k \in TableKeys, a \in Aliases}
TableOf == [t \in {p[1] : p \in TableTexts} |-> (CHOOSE p \in TableTexts : p[1] = t)[2]]
KnownTable(text) == text \in DOMAIN TableOf
ParseTable(text) == TableOf[text]

\* terms of a condition
Col(a, c)   == [k |-> "col", a |-> a, c |-> c]
Num(n)      == [k |-> "num", n |-> n]
Quoted(s)   == [k |-> "str", s |-> s]
TermText(t) ==
    CASE t.k = "col" -> t.a \o "." \o t.c
      [] t.k = "num" -> ToString(t.n)
      [] t.k = "str" -> "'" \o t.s \o "'"

AliasColumns(a) ==
    CASE a \in {"ancestor_collection", "descendant_collection"} -> ColumnsOf("collection_table")
      [] a \in {"source_user", "target_user"}                   -> ColumnsOf("facilityuser_table")
      [] a = "role"                                             -> ColumnsOf("role_table")
      [] a = "membership"                                       -> ColumnsOf("membership_table")
ColumnsNamed(names) == {Col(a, c) : a \in Aliases, c \in names} \cap
                       UNION {{Col(a, c) : c \in AliasColumns(a)} : a \in Aliases}
IdColumns     == ColumnsNamed({"id", "user_id", "collection_id", "dataset_id"})
KindColumns   == ColumnsNamed({"kind"})
BoundColumns  == ColumnsNamed({"lft", "rght"})
BaseColumns   == {Col(BaseModelTable, c) : c \in ColumnsOf("facilityuser_table")}
\* a column reached through a relation of the base model, table.relation.column
RelatedColumns == {Col(BaseModelTable \o ".membership", "collection_id")}
MaxLiteral    == IF MaxColl > MaxUser THEN MaxColl ELSE MaxUser
NumLiterals   == {Num(n) : n \in 0..MaxLiteral}
KindLiterals  == {FACILITY, CLASSROOM} \union RoleKinds
KindLists     == {<< a >> : a \in KindLiterals} \union {<< a, b >> : a, b \in KindLiterals}

\* the conditions the reader understands, each with its text
EqText(l, r)           == TermText(l) \o " = " \o TermText(r)
BetweenText(x, lo, hi) == TermText(x) \o " BETWEEN " \o TermText(lo) \o " AND " \o TermText(hi)
InText(x, list)        ==
    TermText(x) \o " IN (" \o JoinStr([i \in DOMAIN list |-> TermText(Quoted(list[i]))], ",") \o ")"
ConditionTexts ==
    {<< EqText(l, r), [op |-> "=", l |-> l, r |-> r] >>
        : l \in IdColumns,
          r \in IdColumns \union BaseColumns \union RelatedColumns \union NumLiterals}
    \union
    {<< EqText(l, Quoted(r)), [op |-> "=", l |-> l, r |-> Quoted(r)] >>
        : l \in KindColumns, r \in KindLiterals}
    \union
    {<< BetweenText(x, lo, hi), [op |-> "BETWEEN", l |-> x, lo |-> lo, hi |-> hi] >>
        : x \in BoundColumns, lo \in BoundColumns, hi \in BoundColumns}
    \union
    {<< InText(x, list), [op |-> "IN", l |-> x, list |-> list] >>
        : x \in KindColumns, list \in KindLists}
ConditionOf ==
    [t \in {p[1] : p \in ConditionTexts} |-> (CHOOSE p \in ConditionTexts : p[1] = t)[2]]
KnownCondition(text) == text \in DOMAIN ConditionOf
ParseCondition(text) == IF KnownCondition(text) THEN ConditionOf[text] ELSE [op |-> "unknown"]

Range(seq) == {seq[i] : i \in DOMAIN seq}

\* the statement is one the engine accepts: every FROM item and condition is
\* read, no alias is declared twice, every column named belongs to a
\* declared alias (or to the base table)
RECURSIVE WhereTexts(_)
WhereTexts(node) ==
    IF node.connector = "EXTRA" THEN Range(node.sqls)
    ELSE UNION {WhereTexts(node.children[i]) : i \in DOMAIN node.children}
TermsOf(cond) ==
    CASE cond.op = "="       -> {cond.l, cond.r}
      [] cond.op = "BETWEEN" -> {cond.l, cond.lo, cond.hi}
      [] cond.op = "IN"      -> {cond.l}
      [] OTHER               -> {}
ColumnTermsOf(text) ==
    {t \in TermsOf(ParseCondition(text)) : t.k = "col" /\ t.a # BaseModelTable}
AliasesNamed(q) == {t.a : t \in UNION {ColumnTermsOf(text) : text \in WhereTexts(q.where)}}
AliasesDeclared(q) == {ParseTable(q.extra_tables[i]).alias : i \in DOMAIN q.extra_tables}
SqlValid(q) ==
    /\ \A i \in DOMAIN q.extra_tables : KnownTable(q.extra_tables[i])
    /\ \A text \in WhereTexts(q.where) : KnownCondition(text)
    /\ LET decls == [i \in DOMAIN q.extra_tables |-> ParseTable(q.extra_tables[i])]
       IN  /\ \A i, j \in DOMAIN decls : i # j => decls[i].alias # decls[j].alias
           /\ \A text \in WhereTexts(q.where) : \A t \in ColumnTermsOf(text) :
                 \E i \in DOMAIN decls :
                    decls[i].alias = t.a /\ t.c \in ColumnsOf(decls[i].key)

RECURSIVE ParseWhere(_)
ParseWhere(node) ==
    IF node.connector = "EXTRA"
    THEN [connector |-> "EXTRA",
          conds     |-> [i \in DOMAIN node.sqls |-> ParseCondition(node.sqls[i])],
          children  |-> << >>]
    ELSE [connector |-> node.connector, conds |-> << >>,
          children  |-> [i \in DOMAIN node.children |-> ParseWhere(node.children[i])]]

TermValue(t, env, b) ==
    CASE t.k = "col" -> IF t.a = BaseModelTable THEN b[t.c] ELSE env[t.a][t.c]
      [] t.k = "num" -> t.n
      [] t.k = "str" -> t.s
CondHolds(cond, env, b) ==
    CASE cond.op = "="       -> TermValue(cond.l, env, b) = TermValue(cond.r, env, b)
      [] cond.op = "BETWEEN" -> /\ TermValue(cond.lo, env, b) <= TermValue(cond.l, env, b)
                                /\ TermValue(cond.l, env, b) <= TermValue(cond.hi, env, b)
      [] cond.op = "IN"      -> TermValue(cond.l, env, b) \in Range(cond.list)

\* an empty node constrains nothing; ExtraWhere joins its texts with AND
RECURSIVE WhereHolds(_, _, _)
WhereHolds(node, env, b) ==
    CASE node.connector = "EXTRA" -> \A i \in DOMAIN node.conds : CondHolds(node.conds[i], env, b)
      [] node.connector = "AND"   ->
           \A i \in DOMAIN node.children : WhereHolds(node.children[i], env, b)
      [] node.connector = "OR"    ->
           \/ node.children = << >>
           \/ \E i \in DOMAIN node.children : WhereHolds(node.children[i], env, b)

\* one row per declared alias, from left to right
RECURSIVE SomeJoinedRow(_, _, _, _, _)
SomeJoinedRow(decls, env, where, b, db) ==
    IF decls = << >> THEN WhereHolds(where, env, b)
    ELSE \E r \in RowsOf(Head(decls).key, db) :
            SomeJoinedRow(Tail(decls), env @@ (Head(decls).alias :> r), where, b, db)

\* The rows of the base model the queryable selects on database db (as a set;
\* the joins a deferred reference registered keep every base row, so they do
\* not change the set).  A statement the engine rejects selects nothing.
Rows(q, db) ==
    IF ~SqlValid(q) THEN {}
    ELSE LET decls == [i \in DOMAIN q.extra_tables |-> ParseTable(q.extra_tables[i])]
             where == ParseWhere(q.where)
         IN  {b \in db.facilityuser : SomeJoinedRow(decls, << >>, where, b, db)}

(***************************************************************************)
(* The state: the callers' positions and locals, the filter instance each  *)
(* caller uses and its stored queryset, and the database at execution.     *)
(***************************************************************************)
VARIABLES
    args,       \* args[c]: the arguments caller c passed
    locals,     \* locals[c]: caller c's position and local variables
    self,       \* self[c]: the HierarchyRelationsFilter instance caller c calls
    queryset,   \* queryset[i]: instance i's self.queryset
    executed,   \* whether the returned queryables have been executed
    db,         \* the database they were executed on
    rows        \* rows[c]: the rows caller c's queryable selected

vars == << args, locals, self, queryset, executed, db, rows >>

Instances == {"i1", "i2"}
Idle == [Locals(NoArgs) EXCEPT !.pc = "idle"]

PyModels(ids) == {PyModel(i) : i \in ids}
ArgTuples(S, R, A, D, T) ==
    {[source_user |-> s, role_kind |-> r, ancestor_collection |-> a,
      descendant_collection |-> d, target_user |-> t]
        : s \in S, r \in R, a \in A, d \in D, t \in T}

\* arguments naming entities, as the callers of the docstring pass them
EntityArgs ==
    ArgTuples({PyNone, PyF("id")},
              {PyNone, PyStr(ADMIN), PyList(<< ADMIN, COACH >>)},
              {PyNone} \union PyModels(CollIds),
              {PyNone} \union PyModels(CollIds),
              {PyNone} \union PyModels(UserIds))

TypeOK ==
    /\ DOMAIN locals = Callers /\ DOMAIN args = Callers
    /\ \A c \in Callers : self[c] \in Instances
    /\ executed \in BOOLEAN

\* one caller, on an instance freshly constructed over Model.objects.all()
Init ==
    /\ args \in {[c \in Callers |-> IF c = "c1" THEN a ELSE NoArgs] : a \in EntityArgs}
    /\ locals = [c \in Callers |-> IF c = "c1" THEN Locals(args[c]) ELSE Idle]
    /\ self = [c \in Callers |-> IF c = "c1" THEN "i1" ELSE "i2"]
    /\ queryset = [i \in Instances |-> EmptyQuery]
    /\ executed = FALSE
    /\ db = EmptyDatabase
    /\ rows = [c \in Callers |-> {}]

\* every kind of reference a caller can pass for a user or a collection
References ==
    {PyNone, PyInt(0), PyInt(1), PyStr(""), PyStr("1"), PyModel(1), PyF("id"),
     PyF("membership__collection"), PyF("id__gt"), PyF("nosuch"), PyFloat}
ReferenceArgs ==
    ArgTuples(References,
              {PyNone, PyStr(""), PyStr(ADMIN), PyList(<< >>), PyList(<< ADMIN, COACH >>)},
              {PyNone, PyInt(0), PyModel(1)},
              {PyNone, PyStr("1")},
              References)

\* one caller, passing references of every kind
InitRefs ==
    /\ args \in {[c \in Callers |-> IF c = "c1" THEN a ELSE NoArgs] : a \in ReferenceArgs}
    /\ locals = [c \in Callers |-> IF c = "c1" THEN Locals(args[c]) ELSE Idle]
    /\ self = [c \in Callers |-> IF c = "c1" THEN "i1" ELSE "i2"]
    /\ queryset = [i \in Instances |-> EmptyQuery]
    /\ executed = FALSE
    /\ db = EmptyDatabase
    /\ rows = [c \in Callers |-> {}]

SharedArgs1 ==
    ArgTuples({PyNone, PyF("id"), PyF("membership__collection")},
              {PyNone, PyStr(ADMIN)},
              {PyNone, PyModel(1)},
              {PyNone},
              {PyNone, PyModel(1), PyFloat})
SharedArgs2 ==
    ArgTuples({PyNone, PyModel(2)}, {PyNone}, {PyNone}, {PyNone, PyInt(2)}, {PyNone, PyF("id")})

\* two callers at once on one shared instance
InitShared ==
    /\ args \in {[c \in Callers |-> IF c = "c1" THEN a ELSE b]
                    : a \in SharedArgs1, b \in SharedArgs2}
    /\ locals = [c \in Callers |-> Locals(args[c])]
    /\ self = [c \in Callers |-> "i1"]
    /\ queryset = [i \in Instances |-> EmptyQuery]
    /\ executed = FALSE
    /\ db = EmptyDatabase
    /\ rows = [c \in Callers |-> {}]

\* caller c runs the line it stands at
Step(c, r) ==
    /\ locals' = [locals EXCEPT ![c] = r.l]
    /\ queryset' = [queryset EXCEPT ![self[c]] = r.base]
    /\ UNCHANGED << args, self, executed, db, rows >>

Line125(c) == locals[c].pc = "L125" /\ Step(c, L125(locals[c], queryset[self[c]]))
Line136(c) == locals[c].pc = "L136" /\ Step(c, L136(locals[c], queryset[self[c]]))
Line142(c) == locals[c].pc = "L142" /\ Step(c, L142(locals[c], queryset[self[c]]))
Line144(c) == locals[c].pc = "L144" /\ Step(c, L144(locals[c], queryset[self[c]]))
Line147(c) == locals[c].pc = "L147" /\ Step(c, L147(locals[c], queryset[self[c]]))
Line150(c) == locals[c].pc = "L150" /\ Step(c, L150(locals[c], queryset[self[c]]))
Line158(c) == locals[c].pc = "L158" /\ Step(c, L158(locals[c], queryset[self[c]]))
Line162(c) == locals[c].pc = "L162" /\ Step(c, L162(locals[c], queryset[self[c]]))
Line171(c) == locals[c].pc = "L171" /\ Step(c, L171(locals[c], queryset[self[c]]))
Line175(c) == locals[c].pc = "L175" /\ Step(c, L175(locals[c], queryset[self[c]]))
Line179(c) == locals[c].pc = "L179" /\ Step(c, L179(locals[c], queryset[self[c]]))
Line183(c) == locals[c].pc = "L183" /\ Step(c, L183(locals[c], queryset[self[c]]))

Returned(c) == locals[c].pc = "returned"
Raised(c)   == locals[c].pc = "raised"
Finished(c) == locals[c].pc \in {"idle", "returned", "raised"}

\* the callers evaluate what they were returned (a queryset is lazy: nothing
\* is read before), on whatever the database holds by then
Execute ==
    /\ ~executed
    /\ \A c \in Callers : Finished(c)
    /\ \E c \in Callers : Returned(c)
    /\ \E d \in Databases :
          /\ db' = d
          /\ rows' = [c \in Callers |->
                        IF Returned(c) THEN Rows(locals[c].queryset, d) ELSE {}]
    /\ executed' = TRUE
    /\ UNCHANGED << args, locals, self, queryset >>

Next ==
    \/ \E c \in Callers :
          \/ Line125(c) \/ Line136(c) \/ Line142(c) \/ Line144(c)
          \/ Line147(c) \/ Line150(c) \/ Line158(c) \/ Line162(c)
          \/ Line171(c) \/ Line175(c) \/ Line179(c) \/ Line183(c)
    \/ Execute

Spec       == Init /\ [][Next]_vars
SpecRefs   == InitRefs /\ [][Next]_vars
SpecShared == InitShared /\ [][Next]_vars

(***************************************************************************)
(* Claims about the rows selected (specification Spec).                    *)
(***************************************************************************)
CollRow(i) == CHOOSE r \in db.collection : r.id = i
UserRow(i) == CHOOSE r \in db.facilityuser : r.id = i
HasColl(i) == \E r \in db.collection : r.id = i
HasUser(i) == \E r \in db.facilityuser : r.id = i
HasMembership(u, d) == [user_id |-> u, collection_id |-> d] \in db.membership

\* the call filter_by_hierarchy(ancestor_collection=A, descendant_collection=D,
\* target_user=U) with collections A, D and user U of the database
HierarchyCall(c, A, D, U) ==
    /\ Returned(c) /\ executed
    /\ args[c] = [NoArgs EXCEPT !.ancestor_collection = PyModel(A),
                                !.descendant_collection = PyModel(D),
                                !.target_user = PyModel(U)]
    /\ HasColl(A) /\ HasColl(D) /\ HasUser(U)

\* the facility-affiliation case of C1: U has no Membership row, F is a
\* facility of U's dataset, D lies in F
AffiliatedOnly(F, D, U) ==
    /\ \A m \in db.membership : m.user_id # U
    /\ CollRow(F).kind = FACILITY
    /\ CollRow(F).dataset_id = UserRow(U).dataset_id
    /\ CollRow(F).lft <= CollRow(D).lft /\ CollRow(D).lft <= CollRow(F).rght

\* C1: a user with no Membership row, of the dataset of facility F, is
\* matched by ancestor=F, descendant=D (any D inside F), target=U on every
\* content of the Membership table, the empty table included.
C1_PathA ==
    \A c \in Callers : \A F, D \in CollIds : \A U \in UserIds :
       HierarchyCall(c, F, D, U) /\ AffiliatedOnly(F, D, U) => rows[c] # {}

\* C1 holds of the code as soon as the Membership table holds a row (of any
\* user): the membership table is cross-joined on both sides of the OR.
PathA_MembershipTableNonEmpty ==
    \A c \in Callers : \A F, D \in CollIds : \A U \in UserIds :
       HierarchyCall(c, F, D, U) /\ AffiliatedOnly(F, D, U)
          => (rows[c] # {} <=> db.membership # {})
PathA_Witness ==
    \E c \in Callers : \E F, D \in CollIds : \E U \in UserIds :
       HierarchyCall(c, F, D, U) /\ AffiliatedOnly(F, D, U) /\ rows[c] # {}

\* the explicit-membership case of C2: U's dataset is the dataset of no
\* facility, A is an ancestor of D or D itself
UnaffiliatedBelow(A, D, U) ==
    /\ \A f \in db.collection : f.kind = FACILITY => f.dataset_id # UserRow(U).dataset_id
    /\ CollRow(A).lft <= CollRow(D).lft /\ CollRow(D).rght <= CollRow(A).rght

\* C2: for a user U with no facility-dataset relation and A an ancestor of D
\* or D itself, ancestor=A, descendant=D, target=U selects a row when the
\* Membership row (U, D) exists and no row when it does not.
C2_PathB ==
    \A c \in Callers : \A A, D \in CollIds : \A U \in UserIds :
       HierarchyCall(c, A, D, U) /\ UnaffiliatedBelow(A, D, U)
          => (rows[c] # {} <=> HasMembership(U, D))
C2_Witness ==
    \E c \in Callers : \E A, D \in CollIds : \E U \in UserIds :
       /\ HierarchyCall(c, A, D, U) /\ UnaffiliatedBelow(A, D, U)
       /\ A # D /\ HasMembership(U, D) /\ rows[c] # {}

\* the call filter_by_hierarchy(ancestor_collection=A, descendant_collection=B)
ContainmentCall(c, A, B) ==
    /\ Returned(c) /\ executed
    /\ args[c] = [NoArgs EXCEPT !.ancestor_collection = PyModel(A),
                                !.descendant_collection = PyModel(B)]
    /\ HasColl(A) /\ HasColl(B)
StrictlyContains(A, B) ==
    CollRow(A).lft < CollRow(B).lft /\ CollRow(B).rght < CollRow(A).rght

\* C3: ancestor=A, descendant=B selects every row of base when A's interval
\* strictly contains B's or A = B, and no row when B's strictly contains A's.
C3_Containment ==
    \A c \in Callers : \A A, B \in CollIds :
       ContainmentCall(c, A, B) =>
          /\ (StrictlyContains(A, B) \/ A = B => rows[c] = db.facilityuser)
          /\ (StrictlyContains(B, A) => rows[c] = {})
C3_Witness ==
    \E c \in Callers : \E A, B \in CollIds :
       /\ ContainmentCall(c, A, B) /\ StrictlyContains(A, B)
       /\ db.facilityuser # {} /\ rows[c] = db.facilityuser

\* base with only the two collection aliases and the containment condition
OnlyContainment ==
    [extra_tables |-> << "\"kolibriauth_collection\" AS \"ancestor_collection\"",
                         "\"kolibriauth_collection\" AS \"descendant_collection\"" >>,
     where |-> WhereNode("AND", << ExtraWhere(<<
        "descendant_collection.lft BETWEEN ancestor_collection.lft AND ancestor_collection.rght" >>) >>),
     joins |-> {}]
ZeroParameterCall(c) == Returned(c) /\ args[c] = NoArgs

\* C7 as stated: with no parameter the result is base with only the
\* collection aliases and the containment condition, and selects, on every
\* database, exactly the rows of base.
C7_NoOp ==
    \A c \in Callers : ZeroParameterCall(c) =>
       /\ locals[c].queryset = OnlyContainment
       /\ executed => rows[c] = db.facilityuser

\* C7 amended: ... and selects exactly the rows of base on every database
\* whose Collection table holds a row; on an empty Collection table it
\* selects no row.
C7_NoOpUnlessNoCollection ==
    \A c \in Callers : ZeroParameterCall(c) =>
       /\ locals[c].queryset = OnlyContainment
       /\ executed => rows[c] = IF db.collection = {} THEN {} ELSE db.facilityuser
C7_Witness ==
    \E c \in Callers :
       /\ ZeroParameterCall(c) /\ executed
       /\ db.collection # {} /\ db.facilityuser # {} /\ rows[c] = db.facilityuser

\* what the call would return with role_kind replaced by rk
WithRoleKind(c, rk) ==
    filter_by_hierarchy([args[c] EXCEPT !.role_kind = rk], EmptyQuery).l.queryset

\* C8: a single kind string K gives the queryable that [K] gives, and
\* [K1, K2] selects the union of the rows K1 selects and the rows K2 selects.
C8_RoleKindSet ==
    \A c \in Callers : Returned(c) =>
       /\ \A K \in RoleKinds :
             args[c].role_kind = PyStr(K)
                => locals[c].queryset = WithRoleKind(c, PyList(<< K >>))
       /\ \A K1, K2 \in RoleKinds :
             executed /\ args[c].role_kind = PyList(<< K1, K2 >>)
                => rows[c] = Rows(WithRoleKind(c, PyStr(K1)), db)
                                \union Rows(WithRoleKind(c, PyStr(K2)), db)
C8_Witness ==
    \E c \in Callers :
       /\ Returned(c) /\ executed
       /\ args[c].role_kind = PyList(<< ADMIN, COACH >>)
       /\ args[c].source_user = PyF("id")
       /\ Rows(WithRoleKind(c, PyStr(ADMIN)), db) = {}
       /\ rows[c] # {}

(***************************************************************************)
(* Claims about the composed queryable (specifications SpecRefs and        *)
(* SpecShared).  "Supplied" is the spec's word for a parameter that is not *)
(* null; the code tests the parameter's truth value.                       *)
(***************************************************************************)
Supplied(v) == v # PyNone
IdParams == {"source_user", "ancestor_collection", "descendant_collection", "target_user"}
Result(c) == locals[c].queryset

\* the conditions attached as conjuncts of the whole queryable
Conjuncts(q) ==
    IF q.where.connector # "AND" THEN {}
    ELSE UNION {Range(q.where.children[i].sqls) : i \in DOMAIN q.where.children}

\* what a reference stands for in SQL, per kind of reference
Resolvable(v) ==
    \/ v.tag \in {"model", "int", "str"}
    \/ v.tag = "F" /\ v.name \in {"id", "dataset", "membership__collection"}
ReferenceText(v) ==
    CASE v.tag = "model" -> ToString(v.id.n)
      [] v.tag = "int"   -> ToString(v.n)
      [] v.tag = "str"   -> v.s
      [] v.tag = "F" /\ v.name = "id"      -> "kolibriauth_facilityuser.id"
      [] v.tag = "F" /\ v.name = "dataset" -> "kolibriauth_facilityuser.dataset_id"
      [] v.tag = "F" /\ v.name = "membership__collection" ->
            "kolibriauth_facilityuser.membership.collection_id"
IdCondition(alias, v) == alias \o ".id = " \o ReferenceText(v)
IdConditions(alias) == {IdCondition(alias, v) : v \in {w \in References : Resolvable(w)}}
KindCondition(rk) ==
    "role.kind IN ('" \o JoinStr(IF rk.tag = "str" THEN << rk.s >> ELSE rk.l, "','") \o "')"
KindConditions ==
    {KindCondition(rk) : rk \in {PyStr(""), PyList(<< >>)} \union
        {PyList(l) : l \in {<< a >> : a \in RoleKinds} \union {<< a, b >> : a, b \in RoleKinds}}}

\* the value condition of every parameter for which `given` holds, and of no other
ValueConditions(c, given(_)) ==
    /\ \A p \in IdParams :
          IF given(args[c][p])
          THEN IdCondition(p, args[c][p]) \in Conjuncts(Result(c))
          ELSE Conjuncts(Result(c)) \cap IdConditions(p) = {}
    /\ IF given(args[c].role_kind)
       THEN KindCondition(args[c].role_kind) \in Conjuncts(Result(c))
       ELSE Conjuncts(Result(c)) \cap KindConditions = {}

\* C4: the returned queryable carries '<alias>.id = resolved value' for each
\* non-null user or collection parameter and 'role.kind IN (...)' for a
\* non-null role_kind, and no such condition for a parameter not supplied.
C4_ValueConstraints ==
    \A c \in Callers : Returned(c) => ValueConditions(c, Supplied)

\* What the code does: the same, for the parameters that are true in Python
\* (not None, 0, "" or []).
ValueConstraintsOfTruthy ==
    \A c \in Callers : Returned(c) => ValueConditions(c, Truthy)
ValueConstraintsWitness ==
    \E c \in Callers :
       /\ Returned(c) /\ args[c].source_user = PyF("id") /\ args[c].target_user = PyStr("1")
       /\ args[c].role_kind = PyList(<< ADMIN, COACH >>)

\* the structural parts of a queryable
Occurrences(seq, x) == Cardinality({i \in DOMAIN seq : seq[i] = x})
RECURSIVE TextCount(_, _)
TextCount(node, text) ==
    IF node.connector = "EXTRA" THEN Occurrences(node.sqls, text)
    ELSE IF node.children = << >> THEN 0
    ELSE TextCount(node.children[1], text)
           + TextCount([node EXCEPT !.children = Tail(node.children)], text)
AncestorTable   == "\"kolibriauth_collection\" AS \"ancestor_collection\""
DescendantTable == "\"kolibriauth_collection\" AS \"descendant_collection\""
SourceUserTable == "\"kolibriauth_facilityuser\" AS \"source_user\""
RoleTable       == "\"kolibriauth_role\" AS \"role\""
TargetUserTable == "\"kolibriauth_facilityuser\" AS \"target_user\""
MembershipTable == "\"kolibriauth_membership\" AS \"membership\""
Containment ==
    "descendant_collection.lft BETWEEN ancestor_collection.lft AND ancestor_collection.rght"
RoleConditions ==
    {"role.user_id = source_user.id", "role.collection_id = ancestor_collection.id"}
PathA == WhereNode("AND", << ExtraWhere(<< "ancestor_collection.kind = 'facility'",
                                          "ancestor_collection.dataset_id = target_user.dataset_id" >>) >>)
PathB == WhereNode("AND", << ExtraWhere(<< "membership.user_id = target_user.id",
                                          "membership.collection_id = descendant_collection.id" >>) >>)
TwoPaths == WhereNode("OR", << PathA, PathB >>)
PathTexts == WhereTexts(TwoPaths)

CollectionJoinOnce(q) ==
    /\ Occurrences(q.extra_tables, AncestorTable) = 1
    /\ Occurrences(q.extra_tables, DescendantTable) = 1
    /\ TextCount(q.where, Containment) = 1
RoleJoin(q) ==
    /\ Occurrences(q.extra_tables, SourceUserTable) = 1
    /\ Occurrences(q.extra_tables, RoleTable) = 1
    /\ RoleConditions \subseteq Conjuncts(q)
NoRoleJoin(q) ==
    /\ Range(q.extra_tables) \cap {SourceUserTable, RoleTable} = {}
    /\ WhereTexts(q.where) \cap RoleConditions = {}
MembershipJoin(q) ==
    /\ Occurrences(q.extra_tables, TargetUserTable) = 1
    /\ Occurrences(q.extra_tables, MembershipTable) = 1
    /\ q.where.connector = "AND" /\ q.where.children # << >>
    /\ q.where.children[1] = TwoPaths
NoMembershipJoin(q) ==
    /\ Range(q.extra_tables) \cap {TargetUserTable, MembershipTable} = {}
    /\ WhereTexts(q.where) \cap PathTexts = {}
StructuralJoins(c, given(_)) ==
    /\ CollectionJoinOnce(Result(c))
    /\ IF given(args[c].source_user) \/ given(args[c].role_kind)
       THEN RoleJoin(Result(c)) ELSE NoRoleJoin(Result(c))
    /\ IF given(args[c].target_user)
       THEN MembershipJoin(Result(c)) ELSE NoMembershipJoin(Result(c))
    /\ AliasesNamed(Result(c)) \cap Aliases \subseteq AliasesDeclared(Result(c))

\* C10: the collection aliases and the containment condition are present
\* exactly once; the source_user/role aliases and their two conditions iff
\* source_user or role_kind was supplied; the target_user/membership aliases
\* and the two-path disjunction iff target_user was supplied; every alias a
\* condition names is declared.
C10_JoinSelection ==
    \A c \in Callers : Returned(c) => StructuralJoins(c, Supplied)

\* What the code does: the same, with "true in Python" for "supplied".
JoinSelectionOfTruthy ==
    \A c \in Callers : Returned(c) => StructuralJoins(c, Truthy)

\* C5: a supplied reference that does not resolve makes the call raise; a
\* queryable that is returned carries the joins and the value condition of
\* every supplied parameter; after a failed call the instance's queryset is
\* what it was before the call.
C5_AllOrNothing ==
    \A c \in Callers :
       /\ Finished(c) /\ (\E p \in IdParams : Supplied(args[c][p]) /\ ~Resolvable(args[c][p]))
             => Raised(c)
       /\ Returned(c) => StructuralJoins(c, Supplied) /\ ValueConditions(c, Supplied)
       /\ Raised(c) => queryset[self[c]] = EmptyQuery

\* a reference to a field of a related model: resolving it registers a join
RelatedReference(v) == v.tag = "F" /\ LookupField(v.name).joins # {}
PassesRelatedReference(c) == \E p \in IdParams : RelatedReference(args[c][p])

\* What the code does: an unresolvable reference that is true in Python
\* raises, a returned queryable is complete for the parameters that are true
\* in Python, and a failed call leaves the instance's queryset alone unless a
\* reference to a related model's field was resolved before the failure.
AllOrNothingOfTruthy ==
    \A c \in Callers :
       /\ Finished(c) /\ (\E p \in IdParams : Truthy(args[c][p]) /\ ~Resolvable(args[c][p]))
             => Raised(c)
       /\ Returned(c) => StructuralJoins(c, Truthy) /\ ValueConditions(c, Truthy)
       /\ Raised(c) /\ ~PassesRelatedReference(c) => queryset[self[c]] = EmptyQuery
AllOrNothingWitness ==
    \E c \in Callers :
       /\ Raised(c) /\ args[c].source_user = PyModel(1) /\ args[c].target_user = PyF("id__gt")
       /\ queryset[self[c]] = EmptyQuery

\* C9: when target_user is supplied the two path queryables are each built
\* from the unmodified base queryable and OR-combined before any other
\* attach step; everything else is attached afterwards to the combination,
\* as a conjunct beside the disjunction, never to one side of it.
AfterUnion ==
    {"L147", "L150", "L158", "L162", "L171", "L175", "L179", "L183", "returned"}
UnionFirst(c) ==
    /\ locals[c].pc \in AfterUnion =>
          /\ locals[c].member_via_facility = [EmptyQuery EXCEPT !.where = PathA]
          /\ locals[c].member_via_hierarchy =
                [EmptyQuery EXCEPT !.where = PathB,
                                   !.extra_tables = << TargetUserTable, MembershipTable >>]
    /\ locals[c].pc = "L147" =>
          Deref(locals[c].queryset, queryset[self[c]]) =
             [EmptyQuery EXCEPT !.where = TwoPaths,
                                !.extra_tables = << TargetUserTable, MembershipTable >>]
    /\ Returned(c) =>
          /\ Result(c).where.connector = "AND"
          /\ Len(Result(c).where.children) >= 2
          /\ Result(c).where.children[1] = TwoPaths
          /\ \A i \in 2..Len(Result(c).where.children) :
                Result(c).where.children[i].connector = "EXTRA"
C9_UnionBeforeSharedJoins ==
    \A c \in Callers : Supplied(args[c].target_user) => UnionFirst(c)

\* What the code does: the same, when target_user is true in Python.
UnionBeforeSharedJoinsOfTruthy ==
    \A c \in Callers : Truthy(args[c].target_user) => UnionFirst(c)

\* C6: no call modifies the instance's stored queryset, and under every
\* interleaving of calls on one shared instance each call ends as it would
\* if it ran alone (on the instance as constructed).
Alone(c) == filter_by_hierarchy(args[c], EmptyQuery).l
C6_NoSharedMutableState ==
    /\ \A i \in Instances : queryset[i] = EmptyQuery
    /\ \A c \in Callers : Finished(c) /\ locals[c].pc # "idle" =>
          /\ locals[c].pc = Alone(c).pc
          /\ Returned(c) => Result(c) = Alone(c).queryset

\* What the code does: the same, as long as no call passes a reference to a
\* field of a related model.
IsolationWithoutRelatedReferences ==
    (\A c \in Callers : ~PassesRelatedReference(c)) => C6_NoSharedMutableState
IsolationWitness ==
    /\ \A c \in Callers : Returned(c) /\ ~PassesRelatedReference(c)
    /\ args["c1"].source_user = PyF("id") /\ args["c2"].target_user = PyF("id")
====
